---- MODULE Spec2Model ----
(***************************************************************************)
(* parsePathData (src/lib/svg-path-to-pixi.js): translation of an SVG path *)
(* data string into draw calls on a PIXI graphics object.                  *)
(*                                                                         *)
(* The path string is modelled after lexing: a call consumes the list of   *)
(* segments that d.match(commandRegex) yields, each segment being its      *)
(* command letter and the numbers that segment.match(coordsRegex) yields.  *)
(* Arrays are sequences (JS index i is TLA+ index i+1).  A DrawCommand     *)
(* travelling through a pipe is carried together with the closure state    *)
(* (lastPoint, lastControl, firstPoint) it reads and writes, and with the  *)
(* exception, if any, that a stage has thrown.                             *)
(***************************************************************************)
EXTENDS Integers, Sequences, FiniteSets, TLC

\* ---------------------------------------------------------------- bounds
\* segments in one path string
MaxSegs == 3
\* numbers in one path string
MaxTokens == 8
\* repetition groups in one segment
MaxGroups == 2
\* numeric tokens range over 0..MaxVal
MaxVal == 2
\* the i-th number of a segment is b*i modulo MaxVal+1, for a b in Strides
Strides == {0, 1}

\* ------------------------------------------------------------ JS helpers
\* The value of a `let` that has not been assigned.  An empty array is only
\* ever produced by slice() in a pipe that throws before the call goes on.
Undefined == << >>

NoError == "none"

Min(a, b) == IF a < b THEN a ELSE b
Max(a, b) == IF a > b THEN a ELSE b

\* Array.prototype.slice(begin, end), with negative indices counted from the end
slice(arr, begin, end) ==
  LET n == Len(arr)
      norm(i) == IF i < 0 THEN Max(n + i, 0) ELSE Min(i, n)
  IN SubSeq(arr, norm(begin) + 1, norm(end))

\* String.prototype.toUpperCase on a command letter
toUpperCase(c) ==
  CASE c = "m" -> "M" [] c = "l" -> "L" [] c = "h" -> "H" [] c = "v" -> "V"
    [] c = "q" -> "Q" [] c = "c" -> "C" [] c = "t" -> "T" [] c = "s" -> "S"
    [] c = "z" -> "Z" [] c = "a" -> "A" [] OTHER -> c

\* ------------------------------------------------------------- constants
\* the table with the entry of S taken for that of T
numbOfArgsByCommandSasT(c) ==
  CASE c = "M" -> 2 [] c = "L" -> 2 [] c = "T" -> 2
    [] c = "Q" -> 4 [] c = "S" -> 2 [] c = "C" -> 6

numbOfArgsByCommand(c) ==
  CASE c = "M" -> 2 [] c = "L" -> 2 [] c = "T" -> 2
    [] c = "Q" -> 4 [] c = "S" -> 4 [] c = "C" -> 6

pixiDrawFns(c) ==
  CASE c = "M" -> "moveTo" [] c = "L" -> "lineTo"
    [] c = "Q" -> "quadraticCurveTo" [] c = "C" -> "bezierCurveTo"

isEqual(a1, a2) == Len(a1) = Len(a2) /\ \A i \in 1..Len(a1) : a1[i] = a2[i]

\* -------------------------------------------------- exceptions in a pipe
\* A stage that follows a stage that threw is not run.
Throw(x, e) == [x EXCEPT !.err = e]
Ok(x) == x.err = NoError

\* ----------------------------------------------------------------- state
\* the last pair in place of the first
storeFirstPointOfLastGroup(x) ==
  [x EXCEPT !.firstPoint = slice(x.coords, -2, Len(x.coords))]

storeFirstPoint(x) == [x EXCEPT !.firstPoint = slice(x.coords, 0, 2)]

\* the first pair in place of the last
storeLastPointOfFirstPair(x) == [x EXCEPT !.lastPoint = slice(x.coords, 0, 2)]

storeLastPoint(x) == [x EXCEPT !.lastPoint = slice(x.coords, -2, Len(x.coords))]

storeLastControl(x) == [x EXCEPT !.lastControl = slice(x.coords, -4, -2)]


\* ----------------------------------------------------------------- logic
\* segment.match(coordsRegex) is null for a segment without a number, and
\* null.map throws.
getCommandObj(st, commandChar, segment) ==
  LET x == [lastPoint |-> st.lastPoint, lastControl |-> st.lastControl,
            firstPoint |-> st.firstPoint, commandChar |-> commandChar,
            coords |-> segment.args, cmds |-> << >>, err |-> NoError]
  IN IF segment.args = << >> THEN Throw(x, "TypeError") ELSE x

\* coords.reduce((list, arg) => list.concat((basePoint[axis] = arg) && basePoint), [])
\* The assignment yields arg: a zero is falsy and is concatenated in place of
\* basePoint.  basePoint is lastPoint itself for H and V, written in place.
RECURSIVE toLineReduce(_, _, _, _, _)
toLineReduce(coords, i, axis, basePoint, list) ==
  IF i > Len(coords) THEN [basePoint |-> basePoint, list |-> list]
  ELSE LET arg == coords[i]
           bp == [basePoint EXCEPT ![axis + 1] = arg]
       IN toLineReduce(coords, i + 1, axis, bp,
                       list \o (IF arg # 0 THEN bp ELSE <<arg>>))

toLine(x) ==
  LET isAbsolute == x.commandChar \in {"H", "V"}
      axis == IF x.commandChar \in {"H", "h"} THEN 0 ELSE 1
      r == toLineReduce(x.coords, 1, axis,
                        IF isAbsolute THEN x.lastPoint ELSE <<0, 0>>, << >>)
  IN [x EXCEPT !.commandChar = IF isAbsolute THEN "L" ELSE "l",
               !.coords = r.list,
               !.lastPoint = IF isAbsolute THEN r.basePoint ELSE @]

toAbsolute(x) ==
  [x EXCEPT !.commandChar = toUpperCase(x.commandChar),
            !.coords = [idx \in 1..Len(x.coords) |->
                          x.coords[idx] + x.lastPoint[((idx - 1) % 2) + 1]]]

\* the reflection without its factor 2
prependUnreflectedControlPoint(x) ==
  IF x.lastControl = Undefined THEN Throw(x, "TypeError")
  ELSE [x EXCEPT !.commandChar = IF x.commandChar = "T" THEN "Q" ELSE "C",
                 !.coords = [idx \in 1..Len(x.lastPoint) |->
                               x.lastPoint[idx] - x.lastControl[idx]] \o x.coords]

\* the current point taken for a control point that is not there
prependReflexedOrCurrentPoint(x) ==
  [x EXCEPT !.commandChar = IF x.commandChar = "T" THEN "Q" ELSE "C",
            !.coords = (IF x.lastControl = Undefined THEN x.lastPoint
                        ELSE [idx \in 1..Len(x.lastPoint) |->
                                2 * x.lastPoint[idx] - x.lastControl[idx]])
                       \o x.coords]

\* the current point in place of the reflection
prependCurrentPoint(x) ==
  IF x.lastControl = Undefined THEN Throw(x, "TypeError")
  ELSE [x EXCEPT !.commandChar = IF x.commandChar = "T" THEN "Q" ELSE "C",
                 !.coords = x.lastPoint \o x.coords]

\* lastControl[idx] throws while lastControl is undefined
prependReflexedControlPoint(x) ==
  IF x.lastControl = Undefined THEN Throw(x, "TypeError")
  ELSE [x EXCEPT !.commandChar = IF x.commandChar = "T" THEN "Q" ELSE "C",
                 !.coords = [idx \in 1..Len(x.lastPoint) |->
                               2 * x.lastPoint[idx] - x.lastControl[idx]] \o x.coords]

\* chunk of ./utils: consecutive groups of `size`; a count of numbers that is
\* not a multiple of `size` is a fatal error of the call.
chunkRejects(arr, size) == Len(arr) % size # 0

chunk(arr, size) ==
  [g \in 1..(Len(arr) \div size) |-> SubSeq(arr, (g - 1) * size + 1, g * size)]

splitArgsSequence(x) ==
  LET size == numbOfArgsByCommand(x.commandChar)
      groups == chunk(x.coords, size)
  IN IF chunkRejects(x.coords, size) THEN Throw(x, "MalformedArguments")
     ELSE [x EXCEPT !.cmds = [g \in 1..Len(groups) |->
                                [commandChar |-> x.commandChar, coords |-> groups[g]]]]

fixMSequence(x) ==
  [x EXCEPT !.cmds = [idx \in 1..Len(x.cmds) |->
                        [commandChar |-> IF idx > 1 THEN "L" ELSE "M",
                         coords |-> x.cmds[idx].coords]]]

lineToFirstPoint(x) == [x EXCEPT !.commandChar = "L", !.coords = x.firstPoint]

\* the calls made from the last command to the first
callCommandsBackwards(commands) ==
  [k \in 1..Len(commands) |->
     [fn |-> pixiDrawFns(commands[Len(commands) + 1 - k].commandChar),
      args |-> commands[Len(commands) + 1 - k].coords]]

\* graphics[pixiDrawFns[commandChar]](...coords), one call per command
callCommands(commands) ==
  [k \in 1..Len(commands) |->
     [fn |-> pixiDrawFns(commands[k].commandChar), args |-> commands[k].coords]]

\* ------------------------------------------------------ parsing pipeline
\* a line that stores a subpath start as a move does
LStoringFirstPoint(x) ==
  IF Ok(x) THEN splitArgsSequence(storeLastPoint(storeFirstPoint(x))) ELSE x

\* a line that stores a control point as a curve does
LStoringLastControl(x) ==
  IF Ok(x) THEN splitArgsSequence(storeLastControl(storeLastPoint(x))) ELSE x

L(x) == IF Ok(x) THEN splitArgsSequence(storeLastPoint(x)) ELSE x

M(x) ==
  LET y == L(storeFirstPoint(x))
  IN IF Ok(x) THEN (IF Ok(y) THEN fixMSequence(y) ELSE y) ELSE x

Q(x) == IF Ok(x) THEN splitArgsSequence(storeLastControl(storeLastPoint(x))) ELSE x

\* seq.map(pipe(prependReflexedControlPoint, storeLastPoint, storeLastControl)):
\* the groups are mapped in order, each one reading the state the one before wrote
RECURSIVE mapSmooth(_, _)
mapSmooth(x, k) ==
  IF k > Len(x.cmds) THEN x
  ELSE LET y == prependReflexedControlPoint(
                  [x EXCEPT !.commandChar = x.cmds[k].commandChar,
                            !.coords = x.cmds[k].coords])
           w == storeLastControl(storeLastPoint(y))
       IN IF Ok(y)
          THEN mapSmooth([w EXCEPT !.cmds[k] = [commandChar |-> w.commandChar,
                                                coords |-> w.coords]], k + 1)
          ELSE y

T(x) ==
  LET y == splitArgsSequence(x)
  IN IF Ok(x) THEN (IF Ok(y) THEN mapSmooth(y, 1) ELSE y) ELSE x

V(x) == IF Ok(x) THEN L(toLine(x)) ELSE x

\* the closing line drawn without storing its endpoint
ZLeavingLastPoint(x) == splitArgsSequence(lineToFirstPoint(x))

Z(x) == L(lineToFirstPoint(x))

l(x) == IF Ok(x) THEN L(toAbsolute(x)) ELSE x

m(x) == IF Ok(x) THEN M(toAbsolute(x)) ELSE x

q(x) == IF Ok(x) THEN Q(toAbsolute(x)) ELSE x

t(x) == IF Ok(x) THEN T(toAbsolute(x)) ELSE x

v(x) == IF Ok(x) THEN l(toLine(x)) ELSE x

\* the closing line drawn whether or not the path is open
CloseAlways(st) ==
  LET x == [lastPoint |-> st.lastPoint, lastControl |-> st.lastControl,
            firstPoint |-> st.firstPoint, commandChar |-> "Z",
            coords |-> << >>, cmds |-> << >>, err |-> NoError]
  IN IF st.firstPoint = Undefined THEN Throw(x, "TypeError") ELSE Z(x)

\* isEqual(firstPoint, lastPoint) reads firstPoint.length: it throws while
\* firstPoint is undefined.  The segment's own text is not looked at.
CloseIfOpen(st) ==
  LET x == [lastPoint |-> st.lastPoint, lastControl |-> st.lastControl,
            firstPoint |-> st.firstPoint, commandChar |-> "Z",
            coords |-> << >>, cmds |-> << >>, err |-> NoError]
  IN IF st.firstPoint = Undefined THEN Throw(x, "TypeError")
     ELSE IF ~isEqual(st.firstPoint, st.lastPoint) THEN Z(x) ELSE x

\* parse[command](command, segment); parse has no entry for another letter,
\* and calling undefined throws.
parse(st, command, segment) ==
  LET x == getCommandObj(st, command, segment)
  IN CASE command = "M" -> M(x) [] command = "L" -> L(x)
       [] command = "Q" -> Q(x) [] command = "T" -> T(x)
       [] command = "V" -> V(x) [] command = "Z" -> CloseIfOpen(st)
       [] command = "m" -> m(x) [] command = "l" -> l(x)
       [] command = "q" -> q(x) [] command = "t" -> t(x)
       [] command = "v" -> v(x)
       [] command = "C" -> Q(x) [] command = "S" -> T(x)
       [] command = "H" -> V(x) [] command = "c" -> q(x)
       [] command = "s" -> t(x) [] command = "h" -> v(x)
       [] command = "z" -> CloseIfOpen(st)
       [] OTHER -> Throw([x EXCEPT !.err = NoError], "TypeError")

getCommand(segment) == segment.letter

\* ---------------------------------------------------------------- inputs
\* the letters commandRegex accepts that parse knows, and A/a, which it accepts
\* and parse does not know
Letters ==
  {"M", "L", "Q", "T", "V", "Z", "C", "S", "H", "A",
   "m", "l", "q", "t", "v", "z", "c", "s", "h", "a"}

\* numbers one repetition of a letter takes in the path language
inputArity(c) ==
  CASE toUpperCase(c) \in {"M", "L", "T"} -> 2
    [] toUpperCase(c) \in {"Q", "S"} -> 4
    [] toUpperCase(c) = "C" -> 6
    [] OTHER -> 1

\* the numbers of a segment: n tokens, all zero (b = 0) or b, 2b, 3b, ...
\* wrapping around after MaxVal
Tokens(n, b) == [i \in 1..n |-> (b * i) % (MaxVal + 1)]

\* how many numbers a segment of letter c carries: none, whole repetition
\* groups, or one group and a stray number
TokenCounts(c) ==
  {k * inputArity(c) : k \in 0..MaxGroups} \cup {inputArity(c) + 1}

Segments ==
  UNION { { [letter |-> c, args |-> Tokens(n, b)] :
              n \in TokenCounts(c), b \in Strides }
          : c \in Letters }

NoSegment == [letter |-> "", args |-> << >>]
NoOp == [fn |-> "", args |-> << >>]
NoState == [lastPoint |-> << >>, lastControl |-> << >>, firstPoint |-> << >>]

\* ----------------------------------------------------------------- model
VARIABLES
  pc,           \* "idle", "loop" (in d.match(...).forEach), "done", "error"
  again,        \* the call is not the first one made (on record, see below)
  empty,        \* the path string d of the call holds no segment
  err,          \* the exception that ended the call, or NoError
  visited,      \* segments of d.match(commandRegex) the forEach has visited
  tokens,       \* numbers those segments carry
  lastPoint, lastControl, firstPoint,   \* the closure state of the call
  seg,          \* the segment visited last
  pre,          \* the closure state when that segment was reached
  emitted,      \* the calls that segment made on graphics
  sinkCount,    \* calls made on graphics since the call began
  lastOp,       \* the latest of them
  sink,         \* all of them, in the order graphics received them
  input         \* the segments visited since the call began, in order
\* again, sink and input are the record SpecLog keeps; Spec leaves them as
\* they start

vars == <<pc, again, empty, err, visited, tokens, lastPoint, lastControl, firstPoint,
          seg, pre, emitted, sinkCount, lastOp, sink, input>>

PathState == [lastPoint |-> lastPoint, lastControl |-> lastControl,
              firstPoint |-> firstPoint]

Init ==
  /\ pc = "idle"
  /\ again = FALSE
  /\ empty = FALSE
  /\ err = NoError
  /\ visited = 0
  /\ tokens = 0
  /\ lastPoint = <<0, 0>>
  /\ lastControl = Undefined
  /\ firstPoint = Undefined
  /\ seg = NoSegment
  /\ pre = NoState
  /\ emitted = << >>
  /\ sinkCount = 0
  /\ lastOp = NoOp
  /\ sink = << >>
  /\ input = << >>

\* lastPoint, lastControl and firstPoint declared outside the function: a call
\* goes on from the state the call before it left
ParsePathDataStepSharingState(cdBound, noSegment, logged) ==
  /\ pc \in {"idle", "done", "error"}
  /\ again' = IF logged THEN pc # "idle" ELSE again
  /\ empty' = noSegment
  /\ UNCHANGED <<lastPoint, lastControl, firstPoint>>
  /\ seg' = NoSegment
  /\ pre' = NoState
  /\ emitted' = << >>
  /\ sinkCount' = 0
  /\ lastOp' = NoOp
  /\ sink' = << >>
  /\ input' = << >>
  /\ visited' = 0
  /\ tokens' = 0
  /\ IF ~cdBound
     THEN pc' = "error" /\ err' = "ReferenceError"
     ELSE IF noSegment
     THEN pc' = "error" /\ err' = "TypeError"
     ELSE pc' = "loop" /\ err' = NoError

\* A call of parsePathData(d, graphics) up to the forEach.  The statement `cd`
\* reads a global that the module does not declare: it throws unless the host
\* binds one.  d.match(commandRegex) is null when d holds no segment, and
\* null.forEach throws.  The closure state is declared inside the function:
\* every call has its own.
ParsePathDataStep(cdBound, noSegment, logged) ==
  /\ pc \in {"idle", "done", "error"}
  /\ again' = IF logged THEN pc # "idle" ELSE again
  /\ empty' = noSegment
  /\ lastPoint' = <<0, 0>>
  /\ lastControl' = Undefined
  /\ firstPoint' = Undefined
  /\ seg' = NoSegment
  /\ pre' = NoState
  /\ emitted' = << >>
  /\ sinkCount' = 0
  /\ lastOp' = NoOp
  /\ sink' = << >>
  /\ input' = << >>
  /\ visited' = 0
  /\ tokens' = 0
  /\ IF ~cdBound
     THEN pc' = "error" /\ err' = "ReferenceError"
     ELSE IF noSegment
     THEN pc' = "error" /\ err' = "TypeError"
     ELSE pc' = "loop" /\ err' = NoError

ParsePathData(cdBound, noSegment) == ParsePathDataStep(cdBound, noSegment, FALSE)

ParsePathDataLogged(cdBound, noSegment) == ParsePathDataStep(cdBound, noSegment, TRUE)

\* One turn of the forEach: callCommands(parse[command](command, segment), graphics)
SegmentStep(segment, logged) ==
  /\ pc = "loop"
  /\ visited < MaxSegs
  /\ tokens + Len(segment.args) <= MaxTokens
  /\ LET r == parse(PathState, getCommand(segment), segment)
         ops == IF Ok(r) THEN callCommands(r.cmds) ELSE << >>
     IN /\ seg' = segment
        /\ pre' = PathState
        /\ lastPoint' = r.lastPoint
        /\ lastControl' = r.lastControl
        /\ firstPoint' = r.firstPoint
        /\ emitted' = ops
        /\ sinkCount' = sinkCount + Len(ops)
        /\ sink' = IF logged THEN sink \o ops ELSE sink
        /\ input' = IF logged THEN Append(input, segment) ELSE input
        /\ lastOp' = IF ops = << >> THEN lastOp ELSE ops[Len(ops)]
        /\ err' = r.err
        /\ pc' = IF Ok(r) THEN "loop" ELSE "error"
        /\ visited' = visited + 1
        /\ UNCHANGED <<empty, again>>
        /\ tokens' = tokens + Len(segment.args)

Segment(segment) == SegmentStep(segment, FALSE)

SegmentLogged(segment) == SegmentStep(segment, TRUE)

\* the forEach has visited every segment (there is at least one): return graphics
Return ==
  /\ pc = "loop"
  /\ visited > 0
  /\ pc' = "done"
  /\ UNCHANGED <<again, empty, err, visited, tokens, lastPoint, lastControl, firstPoint,
                 seg, pre, emitted, sinkCount, lastOp, sink, input>>

Next ==
  \/ \E cdBound \in BOOLEAN, noSegment \in BOOLEAN : ParsePathData(cdBound, noSegment)
  \/ \E segment \in Segments : Segment(segment)
  \/ Return

Spec == Init /\ [][Next]_vars

\* the same calls, with the sink and the input on record
NextLog ==
  \/ \E cdBound \in BOOLEAN, noSegment \in BOOLEAN : ParsePathDataLogged(cdBound, noSegment)
  \/ \E segment \in Segments : SegmentLogged(segment)
  \/ Return

SpecLog == Init /\ [][NextLog]_vars

\* ------------------------------------------------------------ properties
\* what the sink is documented to take
Arity(fn) ==
  CASE fn = "moveTo" -> 2 [] fn = "lineTo" -> 2
    [] fn = "quadraticCurveTo" -> 4 [] fn = "bezierCurveTo" -> 6

Op(fn, args) == [fn |-> fn, args |-> args]

\* a segment of the call has been visited / the call has not been aborted
Visited == seg # NoSegment
Live == pc \in {"loop", "done"}

\* the numbers of a relative segment made absolute against the point P
Resolve(args, P) == [i \in 1..Len(args) |-> args[i] + P[((i - 1) % 2) + 1]]

\* the g-th group of `size` numbers
Group(args, size, g) == SubSeq(args, (g - 1) * size + 1, g * size)

\* C1: every operation that reaches the sink carries as many arguments as its
\* kind takes (moveTo/lineTo 2, quadraticCurveTo 4, bezierCurveTo 6).
C1_ArityMatchesKind ==
  /\ \A k \in 1..Len(emitted) : Len(emitted[k].args) = Arity(emitted[k].fn)
  /\ sinkCount > 0 => Len(lastOp.args) = Arity(lastOp.fn)

\* an H/h/V/v segment with a zero among its numbers has drawn
C1_Witness ==
  /\ seg.letter \in {"H", "h", "V", "v"}
  /\ \E i \in 1..Len(seg.args) : seg.args[i] = 0
  /\ Len(emitted) > 0

\* C2: at every segment boundary of a call that goes on, lastPoint is the
\* final two arguments of the operation emitted last in the call, or (0, 0)
\* when none has been emitted.
C2_LastPointIsLastEndpoint ==
  pc # "error" =>
    lastPoint = IF sinkCount = 0 THEN <<0, 0>>
                ELSE SubSeq(lastOp.args, Len(lastOp.args) - 1, Len(lastOp.args))

\* a Z/z that emitted nothing, after operations were emitted, away from (0, 0)
C2_Witness ==
  /\ Live
  /\ seg.letter \in {"Z", "z"}
  /\ emitted = << >>
  /\ sinkCount > 0
  /\ lastPoint # <<0, 0>>

\* C3 as stated: a Z/z segment, in whatever state it is visited, emits nothing
\* when lastPoint equals firstPoint and exactly one lineTo(firstPoint) when
\* they differ.
C3_Original ==
  seg.letter \in {"Z", "z"} =>
    IF pre.lastPoint = pre.firstPoint THEN emitted = << >>
    ELSE emitted = <<Op("lineTo", pre.firstPoint)>>

\* C3 amended: once an M/m of the call has set firstPoint, a Z/z emits nothing
\* when lastPoint equals firstPoint and exactly one lineTo(firstPoint) when
\* they differ; while firstPoint is unset a Z/z aborts the call and emits nothing.
C3_ClosePath ==
  seg.letter \in {"Z", "z"} =>
    IF pre.firstPoint = Undefined THEN pc = "error" /\ emitted = << >>
    ELSE /\ Live
         /\ IF pre.lastPoint = pre.firstPoint THEN emitted = << >>
            ELSE emitted = <<Op("lineTo", pre.firstPoint)>>

\* a Z/z away from the subpath start has drawn the closing line
C3_Witness ==
  /\ seg.letter \in {"Z", "z"}
  /\ pre.firstPoint # Undefined
  /\ pre.lastPoint # pre.firstPoint
  /\ emitted = <<Op("lineTo", pre.firstPoint)>>

\* C4: an M/m segment of k >= 1 coordinate groups emits moveTo for the first
\* group and lineTo for each of the k-1 others, in order, and leaves firstPoint
\* at the first group's absolute coordinates.
C4_MoveToRepetition ==
  (seg.letter \in {"M", "m"} /\ Len(seg.args) > 0 /\ Len(seg.args) % 2 = 0) =>
    LET abs == IF seg.letter = "m" THEN Resolve(seg.args, pre.lastPoint) ELSE seg.args
        k == Len(abs) \div 2
    IN /\ Live
       /\ emitted = [g \in 1..k |->
                       Op(IF g = 1 THEN "moveTo" ELSE "lineTo", Group(abs, 2, g))]
       /\ firstPoint = Group(abs, 2, 1)

\* a relative m of two different groups, away from the origin
C4_Witness ==
  /\ seg.letter = "m"
  /\ Len(seg.args) = 4
  /\ Group(seg.args, 2, 1) # Group(seg.args, 2, 2)
  /\ pre.lastPoint # <<0, 0>>
  /\ Len(emitted) = 2

\* C5 as stated: an absolute H (V) segment a1..an visited at (x, y) emits
\* lineTo(a1, y), ..., lineTo(an, y) (lineTo(x, a1), ..., lineTo(x, an)) and
\* leaves lastPoint at (an, y) ((x, an)), whatever the values, zero included.
C5_Original ==
  (seg.letter \in {"H", "V"} /\ Len(seg.args) > 0) =>
    LET n == Len(seg.args)
        point(a) == IF seg.letter = "H" THEN <<a, pre.lastPoint[2]>>
                    ELSE <<pre.lastPoint[1], a>>
    IN /\ Live
       /\ emitted = [i \in 1..n |-> Op("lineTo", point(seg.args[i]))]
       /\ lastPoint = point(seg.args[n])

\* C6: every repetition group of a T/t (S/s) segment emits one
\* quadraticCurveTo (bezierCurveTo) whose leading control point is
\* 2*lastPoint - lastControl, both as the group before left them; each group
\* leaves lastPoint at its endpoint and lastControl at the control point
\* nearest to it.
RECURSIVE SmoothExpected(_, _, _, _, _, _)
SmoothExpected(abs, size, g, P, Cp, ops) ==
  IF g > Len(abs) \div size THEN [ops |-> ops, P |-> P, Cp |-> Cp]
  ELSE LET grp == Group(abs, size, g)
           lead == <<2 * P[1] - Cp[1], 2 * P[2] - Cp[2]>>
           full == lead \o grp
           n == Len(full)
       IN SmoothExpected(abs, size, g + 1,
                         SubSeq(full, n - 1, n), SubSeq(full, n - 3, n - 2),
                         Append(ops, Op(IF size = 2 THEN "quadraticCurveTo"
                                        ELSE "bezierCurveTo", full)))

C6_SmoothReflection ==
  LET size == IF seg.letter \in {"T", "t"} THEN 2 ELSE 4
      abs == IF seg.letter \in {"t", "s"} THEN Resolve(seg.args, pre.lastPoint)
             ELSE seg.args
      e == SmoothExpected(abs, size, 1, pre.lastPoint, pre.lastControl, << >>)
  IN (/\ seg.letter \in {"T", "t", "S", "s"}
      /\ Len(seg.args) > 0
      /\ Len(seg.args) % size = 0
      /\ pre.lastControl # Undefined) =>
       /\ Live
       /\ emitted = e.ops
       /\ lastPoint = e.P
       /\ lastControl = e.Cp

\* a T/t of two groups whose second leading control point differs from the
\* one the state before the segment would give
C6_Witness ==
  /\ seg.letter \in {"T", "t"}
  /\ Len(emitted) = 2
  /\ SubSeq(emitted[2].args, 1, 2) #
       <<2 * pre.lastPoint[1] - pre.lastControl[1],
         2 * pre.lastPoint[2] - pre.lastControl[2]>>

\* C7 as stated: a relative segment visited at P emits the operations, and
\* leaves the state, of the uppercase segment whose x values are raised by P.x
\* and whose y values are raised by P.y.
AbsoluteRewrite(segment, P) ==
  [letter |-> toUpperCase(segment.letter),
   args |-> IF segment.letter = "h" THEN [i \in 1..Len(segment.args) |-> segment.args[i] + P[1]]
            ELSE IF segment.letter = "v" THEN [i \in 1..Len(segment.args) |-> segment.args[i] + P[2]]
            ELSE Resolve(segment.args, P)]

C7_Original ==
  seg.letter \in {"m", "l", "h", "v", "q", "c", "t", "s"} =>
    LET other == AbsoluteRewrite(seg, pre.lastPoint)
        r == parse(pre, other.letter, other)
    IN /\ Live = Ok(r)
       /\ emitted = IF Ok(r) THEN callCommands(r.cmds) ELSE << >>
       /\ Ok(r) => /\ lastPoint = r.lastPoint
                   /\ lastControl = r.lastControl
                   /\ firstPoint = r.firstPoint

\* C8 as stated: a call whose input holds an A/a segment raises an error and
\* emits no operation at all, the segments before the A/a included.
C8_Original ==
  seg.letter \in {"A", "a"} => pc = "error" /\ sinkCount = 0

\* C9 as stated: a segment whose count of numbers is not a multiple of its
\* letter's arity aborts the call, and no operation of any segment is emitted.
C9_Original ==
  (/\ toUpperCase(seg.letter) \in {"M", "L", "T", "Q", "S", "C"}
   /\ Len(seg.args) % inputArity(seg.letter) # 0) =>
    pc = "error" /\ sinkCount = 0

\* C10 as stated: a call on a path string without a segment, in a host that
\* binds `cd`, returns without an error and emits nothing.
C10_Original ==
  (pc # "idle" /\ empty /\ err # "ReferenceError") =>
    pc = "done" /\ err = NoError /\ sinkCount = 0

\* C11 as stated: an L, Q, C, T, S, H or V segment of either case that carries
\* k >= 1 groups of its arity (L/T 2, Q/S 4, C 6, H/V 1) emits exactly k
\* operations of one kind (lineTo for L/H/V, quadraticCurveTo for Q/T,
\* bezierCurveTo for C/S), the g-th built from the g-th group; a T/S segment
\* is taken with lastControl set.
C11_Original ==
  LET u == toUpperCase(seg.letter)
      size == inputArity(seg.letter)
      k == Len(seg.args) \div size
      abs == IF seg.letter = u THEN seg.args
             ELSE AbsoluteRewrite(seg, pre.lastPoint).args
      kind == IF u \in {"L", "H", "V"} THEN "lineTo"
              ELSE IF u \in {"Q", "T"} THEN "quadraticCurveTo"
              ELSE "bezierCurveTo"
      built(op, g) ==
        LET n == Len(op.args)
        IN IF u = "H" THEN n = 2 /\ op.args[1] = abs[g]
           ELSE IF u = "V" THEN n = 2 /\ op.args[2] = abs[g]
           ELSE n >= size /\ SubSeq(op.args, n - size + 1, n) = Group(abs, size, g)
  IN (/\ u \in {"L", "Q", "C", "T", "S", "H", "V"}
      /\ Len(seg.args) > 0
      /\ Len(seg.args) % size = 0
      /\ u \in {"T", "S"} => pre.lastControl # Undefined) =>
       /\ Live
       /\ Len(emitted) = k
       /\ \A g \in 1..k : emitted[g].fn = kind /\ built(emitted[g], g)

\* C12: the operations of a call reach the sink in the order of its segments
\* and, within a segment, in the order of its groups: a step that visits a
\* segment leaves the sink as it was and appends, one call per command and in
\* the order parse produced them, the operations of that segment, so that they
\* are in the sink before the next segment is parsed; the g-th of them ends in
\* the g-th group of an M, L, Q, C, T or S segment.
C12_SinkInOrder ==
  [][\A s \in Segments :
       input' = Append(input, s) =>
         LET r == parse(PathState, getCommand(s), s)
             n == IF Ok(r) THEN Len(r.cmds) ELSE 0
             u == toUpperCase(s.letter)
             size == inputArity(s.letter)
             abs == IF s.letter = u THEN s.args
                    ELSE AbsoluteRewrite(s, lastPoint).args
         IN /\ Len(sink') = Len(sink) + n
            /\ SubSeq(sink', 1, Len(sink)) = sink
            /\ \A k \in 1..n :
                 LET op == sink'[Len(sink) + k]
                     a == Len(op.args)
                 IN /\ op = Op(pixiDrawFns(r.cmds[k].commandChar), r.cmds[k].coords)
                    /\ u \in {"M", "L", "Q", "C", "T", "S"} =>
                         SubSeq(op.args, a - size + 1, a) = Group(abs, size, k)
    ]_vars

\* a second segment of the call has put two different operations in the sink,
\* behind those of the first
C12_Witness ==
  /\ Len(input) >= 2
  /\ Len(emitted) = 2
  /\ emitted[1] # emitted[2]
  /\ Len(sink) > 2
  /\ SubSeq(sink, Len(sink) - 1, Len(sink)) = emitted

\* the closure state a call starts from
FreshState == [lastPoint |-> <<0, 0>>, lastControl |-> Undefined,
               firstPoint |-> Undefined]

\* the segments of a path visited in order from the state st, up to the first
\* that throws: the operations emitted and the state left
RECURSIVE Replay(_, _, _, _)
Replay(path, i, st, ops) ==
  IF i > Len(path) THEN [ops |-> ops, st |-> st, ok |-> TRUE]
  ELSE LET r == parse(st, getCommand(path[i]), path[i])
       IN IF Ok(r)
          THEN Replay(path, i + 1,
                      [lastPoint |-> r.lastPoint, lastControl |-> r.lastControl,
                       firstPoint |-> r.firstPoint],
                      ops \o callCommands(r.cmds))
          ELSE [ops |-> ops, st |-> st, ok |-> FALSE]

C14_LastControlFrame ==
  Visited =>
    LET u == toUpperCase(seg.letter)
    IN /\ u \notin {"Q", "C", "T", "S"} => lastControl = pre.lastControl
       /\ (u \in {"Q", "C", "T", "S"} /\ Live) =>
            /\ emitted # << >>
            /\ LET last == emitted[Len(emitted)].args
               IN lastControl = SubSeq(last, Len(last) - 3, Len(last) - 2)

\* a line, drawn by an L, H, V or Z segment, after a curve had set lastControl
C14_Witness ==
  /\ toUpperCase(seg.letter) \in {"L", "H", "V", "Z"}
  /\ Live
  /\ emitted # << >>
  /\ pre.lastControl # Undefined
  /\ lastControl # lastPoint

\* C15: firstPoint is set by M/m segments and by nothing else.  A segment of
\* another letter, an absolute H/V that rewrites lastPoint in place and a Z/z
\* that draws the closing line included, leaves firstPoint as it was; an M/m
\* segment that the call survives leaves it at its first group, made absolute.
C15_FirstPointFrame ==
  Visited =>
    LET u == toUpperCase(seg.letter)
        abs == IF seg.letter = "m" THEN Resolve(seg.args, pre.lastPoint)
               ELSE seg.args
    IN /\ u # "M" => firstPoint = pre.firstPoint
       /\ (u = "M" /\ Live) => firstPoint = Group(abs, 2, 1)

\* an absolute H/V, or a Z/z that drew the closing line, has moved lastPoint
\* away from a firstPoint that an M/m had set
C15_Witness ==
  /\ seg.letter \in {"H", "V", "Z", "z"}
  /\ Live
  /\ emitted # << >>
  /\ pre.firstPoint # Undefined
  /\ lastPoint # pre.lastPoint

\* the curves among the operations ops, and the last two numbers of an operation
Curves(ops) == SelectSeq(ops, LAMBDA op : op.fn \in {"quadraticCurveTo", "bezierCurveTo"})
Endpoint(op) == SubSeq(op.args, Len(op.args) - 1, Len(op.args))

\* C16: a T/t or S/s segment reflects the stored lastControl whatever was
\* visited since the curve that stored it.  Once the call has emitted a curve,
\* the first operation of a well-formed T/t/S/s segment starts with
\* 2*P - K, where P is the endpoint of the operation emitted last before the
\* segment and K the control point next to the endpoint of the curve emitted
\* last before it, however many moves, lines or closes lie in between and
\* whichever family that curve is of.
C16_StaleReflection ==
  LET before == SubSeq(sink, 1, Len(sink) - Len(emitted))
      curves == Curves(before)
      size == inputArity(seg.letter)
  IN (/\ input # << >>
      /\ toUpperCase(seg.letter) \in {"T", "S"}
      /\ Len(seg.args) > 0
      /\ Len(seg.args) % size = 0
      /\ curves # << >>) =>
       LET P == Endpoint(before[Len(before)])
           c == curves[Len(curves)].args
           K == SubSeq(c, Len(c) - 3, Len(c) - 2)
       IN /\ Live
          /\ emitted # << >>
          /\ SubSeq(emitted[1].args, 1, 2) = <<2 * P[1] - K[1], 2 * P[2] - K[2]>>

\* a T/t or S/s that follows a move, a line or a close, or a curve of the
\* other family, has drawn with a leading control point that is not the
\* current point
C16_Witness ==
  /\ Len(input) >= 3
  /\ toUpperCase(seg.letter) \in {"T", "S"}
  /\ LET prev == toUpperCase(input[Len(input) - 1].letter)
     IN \/ prev \in {"M", "L", "H", "V", "Z"}
        \/ prev = "C" /\ toUpperCase(seg.letter) = "T"
        \/ prev = "Q" /\ toUpperCase(seg.letter) = "S"
  /\ Live
  /\ emitted # << >>
  /\ SubSeq(emitted[1].args, 1, 2) # pre.lastPoint

\* the segment visited last is a well-formed l, m, q or c that follows a Z/z
AfterClose ==
  /\ Len(input) >= 2
  /\ input[Len(input) - 1].letter \in {"Z", "z"}
  /\ seg.letter \in {"l", "m", "q", "c"}
  /\ Len(seg.args) > 0
  /\ Len(seg.args) % inputArity(seg.letter) = 0

\* lastPoint as it stood when the Z/z before the last segment was reached
BeforeClose ==
  Replay(SubSeq(input, 1, Len(input) - 2), 1, FreshState, << >>).st.lastPoint

\* the last segment has emitted its groups resolved against the point P
ResolvedAgainst(P) ==
  LET size == inputArity(seg.letter)
      abs == Resolve(seg.args, P)
  IN /\ Live
     /\ Len(emitted) = Len(abs) \div size
     /\ \A g \in 1..Len(emitted) : emitted[g].args = Group(abs, size, g)

\* C17 as stated: a Z/z does not move lastPoint to firstPoint; a relative
\* segment that follows a Z/z is resolved against lastPoint as it stood before
\* the close.
C17_Original == AfterClose => ResolvedAgainst(BeforeClose)

\* C17 amended: a Z/z that the call survives leaves lastPoint at firstPoint
\* (the closing line goes through storeLastPoint; without a line the two were
\* equal already), and a relative segment that follows a Z/z is resolved
\* against firstPoint, the start of the subpath.
C17_CloseMovesToStart ==
  /\ (seg.letter \in {"Z", "z"} /\ Live) => lastPoint = pre.firstPoint
  /\ AfterClose => ResolvedAgainst(pre.firstPoint)

\* a relative segment has drawn after a Z/z that drew the closing line from a
\* point away from the start of the subpath
C17_Witness ==
  /\ AfterClose
  /\ Live
  /\ emitted # << >>
  /\ BeforeClose # pre.firstPoint
  /\ Len(sink) > Len(emitted)
  /\ sink[Len(sink) - Len(emitted)] = Op("lineTo", pre.firstPoint)

\* the segments of the call visited before the last one
Earlier == SubSeq(input, 1, Len(input) - 1)

\* C18: a segment that reads state the call has not set yet aborts the call
\* and emits nothing, and the operations of the segments before it are in the
\* sink: a T/t/S/s segment before any Q/q/C/c segment (lastControl unset), and
\* a Z/z segment before any M/m segment (firstPoint unset).
C18_UnsetStateAborts ==
  LET u == toUpperCase(seg.letter)
      noCurve == \A i \in 1..Len(Earlier) :
                   toUpperCase(Earlier[i].letter) \notin {"Q", "C"}
      noMove == \A i \in 1..Len(Earlier) : toUpperCase(Earlier[i].letter) # "M"
  IN (/\ input # << >>
      /\ \/ u \in {"T", "S"} /\ noCurve
         \/ u = "Z" /\ noMove) =>
       /\ pc = "error"
       /\ err # NoError
       /\ emitted = << >>
       /\ sink = Replay(Earlier, 1, FreshState, << >>).ops
       /\ Len(sink) = sinkCount

\* a well-formed T/t/S/s segment has aborted the call for want of lastControl,
\* behind segments whose operations are in the sink
C18_Witness ==
  /\ Len(input) >= 2
  /\ toUpperCase(seg.letter) \in {"T", "S"}
  /\ Len(seg.args) = inputArity(seg.letter)
  /\ pre.lastControl = Undefined
  /\ pc = "error"
  /\ sink # << >>

====
